---- MODULE Spec2Model ----
(***************************************************************************)
(* A model of genvmoroz/web-scraper (scraper.go): the path-segment parser  *)
(* parseElement, the tree resolver FindNode/findNode with the operations   *)
(* built on it (GetValue, NextAfter, GetChildes, collectAfter) and the     *)
(* retrying client httpClientWithRetry.Get.                                *)
(*                                                                         *)
(* Go strings are sequences of one-character strings; Go indexes are kept  *)
(* 0-based (-1 = absent) as the code computes with them.                   *)
(***************************************************************************)
EXTENDS Integers, Sequences, FiniteSets, TLC

VARIABLES doc, call, pcall, h

vars == <<doc, call, pcall, h>>

\* ------------------------------------------------------------------ bounds
\* longest segment string handed to parseElement
MaxLen == 5

\* the characters segment strings are drawn from: a letter, two digits, the
\* brackets, white space and one representative of notAllowedSymbols
Alphabet == {"a", "1", "0", "[", "]", " ", "-"}

SegStrings == UNION {[1..k -> Alphabet] : k \in 0..MaxLen}

\* --------------------------------------------------------- program constants
pathDelimiter == "/"

digits == {"1", "2", "3", "4", "5", "6", "7", "8", "9", "0"}

\* the runes of the constant (the backquote and the rune U+2116 are left
\* out: no modelled string contains them)
notAllowedSymbols ==
    {"!", "@", "#", "$", "%", "^", "&", "*", "_", "+", "-", "=", "{", "}",
     "\"", ";", "'", "<", ">", "/", "\\", "~", ":", "?"}

openSquareBracket == "["

closeSquareBracket == "]"

nil == "nil"

\* ------------------------------------------------------- package strings
\* s[i:j] of Go, 0-based, j exclusive
Slice(s, i, j) == SubSeq(s, i + 1, j)

\* strings.IndexByte(s, ch)
IndexByte(s, ch) ==
    IF \E i \in 1..Len(s) : s[i] = ch
    THEN (CHOOSE i \in 1..Len(s) : s[i] = ch /\ \A j \in 1..(i - 1) : s[j] # ch) - 1
    ELSE -1

\* strings.IndexAny(s, chars)
IndexAny(s, chars) ==
    IF \E i \in 1..Len(s) : s[i] \in chars
    THEN (CHOOSE i \in 1..Len(s) : s[i] \in chars /\ \A j \in 1..(i - 1) : s[j] \notin chars) - 1
    ELSE -1

\* strings.ContainsRune(s, ch)
ContainsRune(s, ch) == \E i \in 1..Len(s) : s[i] = ch

\* strings.HasPrefix(s, p)
HasPrefix(s, p) == Len(s) >= Len(p) /\ SubSeq(s, 1, Len(p)) = p

\* strings.TrimSpace(s): drops the leading and the trailing white space
TrimSpace(s) ==
    IF \A i \in 1..Len(s) : s[i] = " "
    THEN <<>>
    ELSE LET first == CHOOSE i \in 1..Len(s) : s[i] # " " /\ \A j \in 1..(i - 1) : s[j] = " "
             last  == CHOOSE i \in 1..Len(s) : s[i] # " " /\ \A j \in (i + 1)..Len(s) : s[j] = " "
         IN  SubSeq(s, first, last)

DigitVal(ch) ==
    CASE ch = "0" -> 0 [] ch = "1" -> 1 [] ch = "2" -> 2 [] ch = "3" -> 3
      [] ch = "4" -> 4 [] ch = "5" -> 5 [] ch = "6" -> 6 [] ch = "7" -> 7
      [] ch = "8" -> 8 [] ch = "9" -> 9

RECURSIVE DecVal(_)
DecVal(s) == IF s = <<>> THEN 0 ELSE 10 * DecVal(SubSeq(s, 1, Len(s) - 1)) + DigitVal(s[Len(s)])

\* strconv.Atoi(s): an optional sign, then one or more decimal digits and
\* nothing else (the modelled strings are too short to overflow int)
Atoi(s) ==
    LET signed == s # <<>> /\ s[1] \in {"+", "-"}
        body   == IF signed THEN Tail(s) ELSE s
    IN  IF body = <<>> \/ \E i \in 1..Len(body) : body[i] \notin digits
        THEN [n |-> 0, err |-> "invalid syntax"]
        ELSE [n |-> IF signed /\ s[1] = "-" THEN 0 - DecVal(body) ELSE DecVal(body), err |-> nil]

\* ------------------------------------------------------------ parseElement
\* getSquareBracketsIndexes(s)
getSquareBracketsIndexes(s) ==
    [o |-> IndexByte(s, openSquareBracket), c |-> IndexByte(s, closeSquareBracket)]

\* a plausible slip: the check that "]" ends the segment is left out
bracketsIncorrect_anyClose(o, c, path) ==
    ((o = -1) # (c = -1)) \/ c < o \/ o = 0

\* the condition under which parseElement reports misplaced brackets
bracketsIncorrect(o, c, path) ==
    ((o = -1) # (c = -1)) \/ c < o \/ (c # -1 /\ c # Len(path) - 1) \/ o = 0

\* parseElement(path): the number of the element and the error
parseElement(path0) ==
    LET path == TrimSpace(path0) IN
    IF path = <<>>
    THEN [n |-> 0, err |-> "empty string"]
    ELSE IF IndexAny(path, notAllowedSymbols) # -1
    THEN [n |-> 0, err |-> "the tag contains a not allowed symbol"]
    ELSE
    LET oc == getSquareBracketsIndexes(path)
        o  == oc.o
        c  == oc.c
    IN
    IF bracketsIncorrect(o, c, path)
    THEN [n |-> 0, err |-> "brackets are arranged incorrectly"]
    ELSE
    LET d == IndexAny(path, digits) IN
    IF d > c /\ c # -1
    THEN [n |-> 0, err |-> "the tag number is out of brackets"]
    ELSE IF o = -1 /\ c = -1
    THEN [n |-> 1, err |-> nil]
    ELSE
    LET a == Atoi(Slice(path, o + 1, c)) IN
    IF a.err # nil
    THEN [n |-> 0, err |-> "convert string to int"]
    ELSE [n |-> a.n, err |-> nil]   \* uint(n): n >= 0 here, "-" is not allowed

\* the letters A-Z and a-z of tagRegexPattern
letters ==
    {"A", "B", "C", "D", "E", "F", "G", "H", "I", "J", "K", "L", "M", "N", "O",
     "P", "Q", "R", "S", "T", "U", "V", "W", "X", "Y", "Z",
     "a", "b", "c", "d", "e", "f", "g", "h", "i", "j", "k", "l", "m", "n", "o",
     "p", "q", "r", "s", "t", "u", "v", "w", "x", "y", "z"}

\* every character of s from position i to position j is in chars
AllIn(s, i, j, chars) == \A k \in i..j : s[k] \in chars

\* regexp.MatchString(tagRegexPattern, s), the pattern being
\* ^[A-Za-z]+(\d+)?(\[\d+]{1})?$ : one or more letters, then digits or
\* none, then "[", one or more digits and "]" or nothing, up to the end
matchTagRegex(s) ==
    \E a \in 1..Len(s) : \E b \in a..Len(s) :
        /\ AllIn(s, 1, a, letters)
        /\ AllIn(s, a + 1, b, digits)
        /\ \/ b = Len(s)
           \/ /\ Len(s) >= b + 3
              /\ s[b + 1] = "["
              /\ AllIn(s, b + 2, Len(s) - 1, digits)
              /\ s[Len(s)] = "]"

\* parseElementWithRegex(s): the number of the element and the error
parseElementWithRegex(s) ==
    IF ~matchTagRegex(s)
    THEN [n |-> 0, err |-> "does not match with regex pattern"]
    ELSE
    LET oc == getSquareBracketsIndexes(s)
        o  == oc.o
        c  == oc.c
    IN
    IF o = -1 /\ c = -1
    THEN [n |-> 1, err |-> nil]
    ELSE
    LET a == Atoi(Slice(s, o + 1, c)) IN
    IF a.err # nil
    THEN [n |-> 0, err |-> "convert string to int"]
    ELSE [n |-> a.n, err |-> nil]   \* uint(n): n >= 0, the pattern has no sign

\* ------------------------------------------------------------ html.Node
\* A tree is a sequence of nodes; a node pointer is an index into it and 0
\* is the nil pointer.  Node 1 is the Document node Scraper.doc points to.
\* Nodes are numbered in document order (a node before its descendants, a
\* subtree before the next sibling).
html == <<"h", "t", "m", "l">>

div == <<"d", "i", "v">>

text == <<"t", "e", "x", "t">>

\* most nodes of a tree, the Document node included
MaxNodes == 5

\* what the children of the Document node can be: the doctype and the root
\* element
TopLabels ==
    { [Type |-> "DoctypeNode", Data |-> html],
      [Type |-> "ElementNode", Data |-> html] }

\* what the nodes below them can be: an element, a text node (its text is
\* the word div) and a node of type ErrorNode
InnerLabels ==
    { [Type |-> "ElementNode", Data |-> div],
      [Type |-> "TextNode",    Data |-> div],
      [Type |-> "ErrorNode",   Data |-> <<>>] }

Labels == TopLabels \cup InnerLabels

RECURSIVE AncOrSelf(_, _)
\* the node i and its ancestors under the Parent links p
AncOrSelf(p, i) == IF i = 0 THEN {} ELSE {i} \cup AncOrSelf(p, p[i])

\* Parent links of the trees of n nodes numbered in document order
ParentVectors(n) ==
    { p \in [1..n -> 0..(n - 1)] :
        /\ p[1] = 0
        /\ \A i \in 2..n : p[i] # 0 /\ p[i] < i
        /\ \A i \in 3..n : p[i] \in AncOrSelf(p, i - 1) }

Min(S) == CHOOSE x \in S : \A y \in S : x <= y

\* the tree with Parent links p and labels l, its FirstChild and NextSibling
\* links set as Node.AppendChild sets them
MkDoc(n, p, l) ==
    [i \in 1..n |->
        LET kids == {j \in 1..n : p[j] = i}
            sibs == {j \in 1..n : j > i /\ p[j] = p[i]}
        IN  [Type        |-> IF i = 1 THEN "DocumentNode" ELSE l[i].Type,
             Data        |-> IF i = 1 THEN <<>> ELSE l[i].Data,
             Parent      |-> p[i],
             FirstChild  |-> IF kids = {} THEN 0 ELSE Min(kids),
             NextSibling |-> IF i = 1 \/ sibs = {} THEN 0 ELSE Min(sibs)]]

\* the labellings of the tree p: only the Document node and elements have
\* children, the doctype and the root element are children of the Document
\* node
Labelings(n, p) ==
    { l \in [2..n -> Labels] :
        \A i \in 2..n :
            IF p[i] = 1
            THEN l[i] \in TopLabels
            ELSE l[i] \in InnerLabels /\ l[p[i]].Type = "ElementNode" }

DocsOf(n) ==
    UNION { { MkDoc(n, p, l) : l \in Labelings(n, p) } : p \in ParentVectors(n) }

\* the documents a Scraper can hold
Docs == UNION { DocsOf(n) : n \in 1..MaxNodes }

\* the segments paths are made of, and the most segments of a path
PathSegs == { html, div, div \o <<"[", "2", "]">>, text, <<"d", "[">> }

MaxSegs == 2

RECURSIVE Join(_)
\* strings.Join(segs, pathDelimiter)
Join(segs) ==
    IF Len(segs) = 0 THEN <<>>
    ELSE IF Len(segs) = 1 THEN segs[1]
    ELSE segs[1] \o <<pathDelimiter>> \o Join(Tail(segs))

\* the sequences of at most n segments
SegSeqs(n) == UNION {[1..k -> PathSegs] : k \in 0..n}

\* the path strings handed to the Scraper: the segments joined behind the
\* prefix "/", and the empty string and the single segments without it
Paths ==
    { <<pathDelimiter>> \o Join(segs) : segs \in SegSeqs(MaxSegs) }
        \cup { Join(segs) : segs \in SegSeqs(1) }

RECURSIVE Split(_, _)
\* strings.Split(s, sep) for a separator of one character: the pieces
\* between the separators, one piece (the empty string) for the empty string
Split(s, sep) ==
    LET i == IndexByte(s, sep) IN
    IF i = -1 THEN <<s>>
    ELSE <<Slice(s, 0, i)>> \o Split(Slice(s, i + 1, Len(s)), sep)

\* ---------------------------------------------------------------- Scraper
\* what a call returns: a node and an error, or a panic (a nil pointer
\* dereference aborts the call)
Ret(node, err) == [node |-> node, err |-> err, panic |-> FALSE]

Panic == [node |-> 0, err |-> nil, panic |-> TRUE]

RECURSIVE scanSiblings(_, _, _, _, _)
\* the loop of findNode over the sibling chain from n: the node at which
\* tagsCount reaches tagNum, 0 when the chain ends first
scanSiblings(d, n, targetTagName, tagNum, tagsCount) ==
    IF n = 0 THEN 0
    ELSE IF \/ (d[n].Type = "TextNode" /\ HasPrefix(targetTagName, text))
            \/ d[n].Data = targetTagName
    THEN IF tagsCount = tagNum
         THEN n
         ELSE scanSiblings(d, d[n].NextSibling, targetTagName, tagNum, tagsCount + 1)
    ELSE scanSiblings(d, d[n].NextSibling, targetTagName, tagNum, tagsCount)

RECURSIVE findNode(_, _, _)
findNode(d, path, rootNode) ==
    IF Len(path) = 0
    THEN Ret(rootNode, nil)
    ELSE IF rootNode = 0
    THEN Panic                                   \* rootNode.FirstChild of nil
    ELSE
    LET first == d[rootNode].FirstChild
        pe    == parseElement(path[1])
        targetTagName ==
            IF ContainsRune(path[1], "[")
            THEN Slice(path[1], 0, IndexByte(path[1], "["))
            ELSE path[1]
        n     == scanSiblings(d, first, targetTagName, pe.n, 1)
    IN
    IF pe.err # nil
    THEN Ret(0, "parse element number")
    ELSE IF n # 0
    THEN findNode(d, Tail(path), n)
    ELSE Ret(0, "element not found")

\* Scraper.FindNode (every modelled string is valid UTF-8)
FindNode(d, fullXPath) ==
    IF ~HasPrefix(fullXPath, <<pathDelimiter>>)
    THEN Ret(0, "should have a prefix")
    ELSE IF d[1].FirstChild = 0
    THEN Panic                                   \* s.doc.FirstChild.NextSibling
    ELSE findNode(d,
                  Tail(Split(Slice(fullXPath, 1, Len(fullXPath)), pathDelimiter)),
                  d[d[1].FirstChild].NextSibling)

RECURSIVE collectAfter_siblingsOnly(_, _)
\* a plausible slip: the children of the collected nodes are not visited
collectAfter_siblingsOnly(d, node) ==
    IF node = 0 THEN <<>>
    ELSE <<node>> \o collectAfter_siblingsOnly(d, d[node].NextSibling)

RECURSIVE collectAfter(_, _)
\* collectAfter(node): node, its subtree, then the same from its next sibling
collectAfter(d, node) ==
    IF node = 0 THEN <<>>
    ELSE <<node>> \o collectAfter(d, d[node].FirstChild)
                  \o collectAfter(d, d[node].NextSibling)

\* a plausible slip: the type of the resolved node is not checked
GetValue_anyType(d, fullXPath) ==
    LET r == FindNode(d, fullXPath) IN
    IF r.panic THEN [value |-> <<>>, err |-> nil, panic |-> TRUE]
    ELSE IF r.err # nil THEN [value |-> <<>>, err |-> r.err, panic |-> FALSE]
    ELSE IF r.node = 0 THEN [value |-> <<>>, err |-> nil, panic |-> TRUE]
    ELSE [value |-> d[r.node].Data, err |-> nil, panic |-> FALSE]

\* Scraper.GetValue: the value, the error, or a panic
GetValue(d, fullXPath) ==
    LET r == FindNode(d, fullXPath) IN
    IF r.panic THEN [value |-> <<>>, err |-> nil, panic |-> TRUE]
    ELSE IF r.err # nil THEN [value |-> <<>>, err |-> r.err, panic |-> FALSE]
    ELSE IF r.node = 0 THEN [value |-> <<>>, err |-> nil, panic |-> TRUE]   \* node.Type of nil
    ELSE IF d[r.node].Type = "TextNode"
    THEN [value |-> d[r.node].Data, err |-> nil, panic |-> FALSE]
    ELSE [value |-> <<>>, err |-> "node isn't text", panic |-> FALSE]

\* Scraper.NextAfter: the nodes, the error, or a panic
NextAfter(d, fullXPath) ==
    LET r == FindNode(d, fullXPath) IN
    IF r.panic THEN [nodes |-> <<>>, err |-> nil, panic |-> TRUE]
    ELSE IF r.err # nil THEN [nodes |-> <<>>, err |-> r.err, panic |-> FALSE]
    ELSE [nodes |-> collectAfter(d, r.node), err |-> nil, panic |-> FALSE]

\* Scraper.GetChildes: the nodes, the error, or a panic
GetChildes(d, fullXPath) ==
    LET r == FindNode(d, fullXPath) IN
    IF r.panic THEN [nodes |-> <<>>, err |-> nil, panic |-> TRUE]
    ELSE IF r.err # nil THEN [nodes |-> <<>>, err |-> r.err, panic |-> FALSE]
    ELSE IF r.node = 0 THEN [nodes |-> <<>>, err |-> nil, panic |-> TRUE]   \* node.FirstChild of nil
    ELSE [nodes |-> collectAfter(d, d[r.node].FirstChild), err |-> nil, panic |-> FALSE]

\* ------------------------------------------------------------------ state
NoDoc == <<>>

NoCall == [op |-> "none"]

NoParse == [op |-> "none"]

NoHttp == [pc |-> "none"]

\* ------------------------------------------------ Scraper specification
\* a Scraper holding a document, no call made yet
Init ==
    /\ doc \in Docs
    /\ call = NoCall
    /\ pcall = NoParse
    /\ h = NoHttp

CallFindNode ==
    /\ call.op = "none"
    /\ \E p \in Paths :
          LET r == FindNode(doc, p) IN
          call' = [op |-> "FindNode", fullXPath |-> p, node |-> r.node,
                   value |-> <<>>, nodes |-> <<>>, err |-> r.err, panic |-> r.panic]
    /\ UNCHANGED <<doc, pcall, h>>

CallGetValue ==
    /\ call.op = "none"
    /\ \E p \in Paths :
          LET r == GetValue(doc, p) IN
          call' = [op |-> "GetValue", fullXPath |-> p, node |-> 0,
                   value |-> r.value, nodes |-> <<>>, err |-> r.err, panic |-> r.panic]
    /\ UNCHANGED <<doc, pcall, h>>

CallNextAfter ==
    /\ call.op = "none"
    /\ \E p \in Paths :
          LET r == NextAfter(doc, p) IN
          call' = [op |-> "NextAfter", fullXPath |-> p, node |-> 0,
                   value |-> <<>>, nodes |-> r.nodes, err |-> r.err, panic |-> r.panic]
    /\ UNCHANGED <<doc, pcall, h>>

CallGetChildes ==
    /\ call.op = "none"
    /\ \E p \in Paths :
          LET r == GetChildes(doc, p) IN
          call' = [op |-> "GetChildes", fullXPath |-> p, node |-> 0,
                   value |-> <<>>, nodes |-> r.nodes, err |-> r.err, panic |-> r.panic]
    /\ UNCHANGED <<doc, pcall, h>>

\* collectAfter called on a node of the document or on nil
CallCollectAfter ==
    /\ call.op = "none"
    /\ \E start \in 0..Len(doc) :
          call' = [op |-> "collectAfter", fullXPath |-> <<>>, node |-> start,
                   value |-> <<>>, nodes |-> collectAfter(doc, start), err |-> nil,
                   panic |-> FALSE]
    /\ UNCHANGED <<doc, pcall, h>>

Next ==
    \/ CallFindNode
    \/ CallGetValue
    \/ CallNextAfter
    \/ CallGetChildes
    \/ CallCollectAfter

Spec == Init /\ [][Next]_vars

\* ------------------------------------------------- parser specification
InitParse ==
    /\ doc = NoDoc
    /\ call = NoCall
    /\ pcall = NoParse
    /\ h = NoHttp

\* one call parseElement(s)
ParseElement ==
    /\ pcall.op = "none"
    /\ \E s \in SegStrings :
          LET r == parseElement(s) IN
          pcall' = [op |-> "parseElement", path |-> s, n |-> r.n, err |-> r.err]
    /\ UNCHANGED <<doc, call, h>>

\* one call parseElementWithRegex(s)
ParseElementWithRegex ==
    /\ pcall.op = "none"
    /\ \E s \in SegStrings :
          LET r == parseElementWithRegex(s) IN
          pcall' = [op |-> "parseElementWithRegex", path |-> s, n |-> r.n, err |-> r.err]
    /\ UNCHANGED <<doc, call, h>>

NextParse ==
    \/ ParseElement
    \/ ParseElementWithRegex

SpecParse == InitParse /\ [][NextParse]_vars

\* ------------------------------------------------- httpClientWithRetry
\* the width in bits of Go's int and uint, scaled down from 64
IntBits == 3

RECURSIVE Pow2(_)
Pow2(k) == IF k = 0 THEN 1 ELSE 2 * Pow2(k - 1)

\* the values of a uint
UintValues == 0..(Pow2(IntBits) - 1)

\* int(u) for a uint u: the same bits read as a signed number
ToInt(u) == IF u >= Pow2(IntBits - 1) THEN u - Pow2(IntBits) ELSE u

\* a client as NewHTTPClientWithRetry, defaultHTTPClientWithRetry or a
\* struct literal builds it; Get has not been called
InitHttp ==
    /\ doc = NoDoc
    /\ call = NoCall
    /\ pcall = NoParse
    /\ \E r \in UintValues, t \in {-1, 0, 1} :
          h = [pc |-> "idle", retries |-> r, retryTimeout |-> t, url |-> nil,
               retry |-> 0, log |-> <<>>, lastErr |-> nil, resp |-> nil, err |-> nil]

\* Get(url) up to the loop: the checks of url and retryTimeout, retry := int(c.retries)
GetEnter ==
    /\ h.pc = "idle"
    /\ \E u \in {nil, "url"} :
          h' = IF u = nil
               THEN [h EXCEPT !.pc = "returned", !.url = u, !.err = "url cannot be nil"]
               ELSE IF h.retryTimeout < 0
               THEN [h EXCEPT !.pc = "returned", !.url = u,
                              !.err = "retryTimeout should not be negative"]
               ELSE [h EXCEPT !.pc = "loop", !.url = u, !.retry = ToInt(h.retries)]
    /\ UNCHANGED <<doc, call, pcall>>

\* the loop condition retry >= 0; past the loop Get returns nil and the
\* error that wraps err
GetLoop ==
    /\ h.pc = "loop"
    /\ h' = IF h.retry >= 0
            THEN [h EXCEPT !.pc = "do"]
            ELSE [h EXCEPT !.pc = "returned", !.resp = nil,
                           !.err = [msg |-> "execution request timeout", wraps |-> h.lastErr]]
    /\ UNCHANGED <<doc, call, pcall>>

\* c.client.Do(req) succeeds: Get returns its response
DoOk ==
    /\ h.pc = "do"
    /\ LET k == Len(h.log) + 1 IN
       h' = [h EXCEPT !.pc = "returned", !.log = Append(@, "ok"),
                      !.resp = [of |-> k], !.err = nil]
    /\ UNCHANGED <<doc, call, pcall>>

\* c.client.Do(req) fails: err is set to the error of this attempt
DoFail ==
    /\ h.pc = "do"
    /\ LET k == Len(h.log) + 1 IN
       h' = [h EXCEPT !.pc = "failed", !.log = Append(@, "fail"), !.lastErr = [of |-> k]]
    /\ UNCHANGED <<doc, call, pcall>>

\* after a failed attempt: time.Sleep(c.retryTimeout) when retry > 0, then retry--
GetRetry ==
    /\ h.pc = "failed"
    /\ h' = [h EXCEPT !.pc = "loop",
                      !.log = IF h.retry > 0 THEN Append(@, "sleep") ELSE @,
                      !.retry = @ - 1]
    /\ UNCHANGED <<doc, call, pcall>>

NextHttp ==
    \/ GetEnter
    \/ GetLoop
    \/ DoOk
    \/ DoFail
    \/ GetRetry

SpecHttp == InitHttp /\ [][NextHttp]_vars

\* ================================================================ claims
\* -------------------------------------------------------- the parser
Parsed == pcall.op = "parseElement"

Count(s, ch) == Cardinality({i \in 1..Len(s) : s[i] = ch})

\* the brackets of s are misplaced: only one of "[" and "]" is present, "["
\* is the first character, "]" is not the last one, "]" precedes "[", or
\* there is more than one "[" or "]"
Misplaced(s) ==
    LET o == IndexByte(s, "[")
        c == IndexByte(s, "]")
    IN  \/ (o = -1) # (c = -1)
        \/ o = 0
        \/ (c # -1 /\ c # Len(s) - 1)
        \/ (o # -1 /\ c # -1 /\ c < o)
        \/ Count(s, "[") > 1
        \/ Count(s, "]") > 1

\* C4 as stated: parseElement returns an error and the ordinal 0 for every
\* segment whose brackets are misplaced.
C4_AsStated == Parsed /\ Misplaced(pcall.path) => pcall.err # nil /\ pcall.n = 0

\* C4 (amended): parseElement returns an error and the ordinal 0 for every
\* segment whose brackets are misplaced once its leading and trailing white
\* space is removed.
C4_MisplacedBracketsRejected ==
    Parsed /\ Misplaced(TrimSpace(pcall.path)) => pcall.err # nil /\ pcall.n = 0

\* a segment whose "]" is followed by another character was parsed
C4_Witness ==
    /\ Parsed
    /\ LET s == TrimSpace(pcall.path) IN
       /\ IndexByte(s, "[") > 0
       /\ IndexByte(s, "]") > IndexByte(s, "[")
       /\ IndexByte(s, "]") # Len(s) - 1
    /\ pcall.err = "brackets are arranged incorrectly"

\* s has a bracket and a digit outside the span from "[" to "]"
DigitOutsideBrackets(s) ==
    LET o == IndexByte(s, "[")
        c == IndexByte(s, "]")
    IN  /\ (o # -1 \/ c # -1)
        /\ \E i \in 1..Len(s) :
              /\ s[i] \in digits
              /\ ~(o # -1 /\ c # -1 /\ o < i - 1 /\ i - 1 < c)

\* s has a "]" and a digit after it
DigitAfterClose(s) ==
    LET c == IndexByte(s, "]") IN
    c # -1 /\ \E i \in 1..Len(s) : s[i] \in digits /\ i - 1 > c

\* C5 as stated: when a segment contains brackets, a digit outside the
\* bracket span makes parseElement fail.
C5_AsStated == Parsed /\ DigitOutsideBrackets(pcall.path) => pcall.err # nil

\* C5 (amended): when a segment contains brackets, a digit after the closing
\* bracket makes parseElement fail with an error and the ordinal 0 (digits
\* before the opening bracket belong to the tag name).
C5_DigitAfterBracketsRejected ==
    Parsed /\ DigitAfterClose(pcall.path) => pcall.err # nil /\ pcall.n = 0

\* a segment tag[N]D with a digit D after the bracket was parsed
C5_Witness ==
    /\ Parsed
    /\ DigitAfterClose(pcall.path)
    /\ IndexByte(pcall.path, "[") > 0
    /\ IndexByte(pcall.path, "]") > IndexByte(pcall.path, "[") + 1
    /\ pcall.err # nil

\* C6: every segment parseElement accepts yields an ordinal >= 1 (bracket
\* content that is not a positive integer is rejected).
C6_AcceptedOrdinalPositive == Parsed /\ pcall.err = nil => pcall.n >= 1

\* C11: parseElement and parseElementWithRegex are interchangeable: on every
\* segment they agree on whether it is rejected, and when both accept it
\* they return the same ordinal.
C11_ParsersAgree ==
    pcall.op = "parseElementWithRegex" =>
        LET r == parseElement(pcall.path) IN
        /\ (pcall.err = nil) <=> (r.err = nil)
        /\ (pcall.err = nil /\ r.err = nil) => pcall.n = r.n

\* ------------------------------------------------------- the resolver
\* the Parent links of d
ParentOf(d) == [i \in 1..Len(d) |-> d[i].Parent]

\* the segments of a path string with the prefix "/"
SegmentsOf(fullXPath) == Split(Tail(fullXPath), pathDelimiter)

\* the tag name of a segment: the segment without its bracket suffix
TagOf(seg) ==
    IF ContainsRune(seg, "[") THEN Slice(seg, 0, IndexByte(seg, "[")) ELSE seg

\* the path has the prefix and all its segments are syntactically valid
ValidPath(fullXPath) ==
    /\ HasPrefix(fullXPath, <<pathDelimiter>>)
    /\ \A i \in 1..Len(SegmentsOf(fullXPath)) :
          LET pe == parseElement(SegmentsOf(fullXPath)[i]) IN pe.err = nil /\ pe.n >= 1

\* node n matches a segment of tag name tag: an element of that tag, or a
\* text node when the tag name starts with "text"
Matches(d, n, tag) ==
    \/ (d[n].Type = "ElementNode" /\ d[n].Data = tag)
    \/ (d[n].Type = "TextNode" /\ HasPrefix(tag, text))

\* the k-th child of parent, in sibling order, that matches tag; 0 if none
NthMatch(d, parent, tag, k) ==
    LET M == {j \in 1..Len(d) : d[j].Parent = parent /\ Matches(d, j, tag)} IN
    IF \E j \in M : Cardinality({i \in M : i < j}) = k - 1
    THEN CHOOSE j \in M : Cardinality({i \in M : i < j}) = k - 1
    ELSE 0

RECURSIVE Addressed(_, _, _)
\* the node the segments address below parent; 0 if some level has fewer
\* matching nodes than the segment's ordinal
Addressed(d, segs, parent) ==
    IF Len(segs) = 0 THEN parent
    ELSE LET m == NthMatch(d, parent, TagOf(segs[1]), parseElement(segs[1]).n) IN
         IF m = 0 THEN 0 ELSE Addressed(d, Tail(segs), m)

\* the document starts with the doctype followed by an element, the shape
\* FindNode takes for granted
DoctypeThenRoot(d) ==
    /\ d[1].FirstChild # 0
    /\ d[d[1].FirstChild].Type = "DoctypeNode"
    /\ d[d[1].FirstChild].NextSibling # 0
    /\ d[d[d[1].FirstChild].NextSibling].Type = "ElementNode"

\* C1: for a path of valid segments whose addressed node exists, FindNode
\* returns exactly that node and no error (stated for the documents that
\* start with the doctype and the root element).
C1_FindNodeReturnsAddressed ==
    /\ call.op = "FindNode"
    /\ DoctypeThenRoot(doc)
    /\ ValidPath(call.fullXPath)
    /\ Addressed(doc, SegmentsOf(call.fullXPath), 1) # 0
    => /\ ~call.panic
       /\ call.err = nil
       /\ call.node = Addressed(doc, SegmentsOf(call.fullXPath), 1)

\* C2: FindNode returns an error and no node when some level of the path,
\* the first included, holds fewer matching nodes than the segment's ordinal
\* (stated for the documents that start with the doctype and the root
\* element).
C2_FindNodeFailsWhenAbsent ==
    /\ call.op = "FindNode"
    /\ DoctypeThenRoot(doc)
    /\ ValidPath(call.fullXPath)
    /\ Addressed(doc, SegmentsOf(call.fullXPath), 1) = 0
    => /\ ~call.panic
       /\ call.err # nil
       /\ call.node = 0

\* the nodes of the sibling chain from n up to, not including, node stop
\* (the whole chain when stop = 0)
ChainBefore(d, n, stop) ==
    IF n = 0 THEN {}
    ELSE {j \in 1..Len(d) : d[j].Parent = d[n].Parent /\ j >= n /\ (stop = 0 \/ j < stop)}

RECURSIVE ScansErrorNode(_, _, _)
\* findNode on path from rootNode passes, in some sibling chain, a node of
\* type ErrorNode before the segment's ordinal is reached
ScansErrorNode(d, path, rootNode) ==
    IF Len(path) = 0 \/ rootNode = 0 \/ parseElement(path[1]).err # nil THEN FALSE
    ELSE LET first == d[rootNode].FirstChild
             n == scanSiblings(d, first, TagOf(path[1]), parseElement(path[1]).n, 1)
         IN  \/ \E j \in ChainBefore(d, first, n) : d[j].Type = "ErrorNode"
             \/ (n # 0 /\ ScansErrorNode(d, Tail(path), n))

\* C7: when the resolver reaches an Error-kind node in a sibling chain before
\* the segment's ordinal is reached, the resolution fails with an error.
C7_ErrorNodeAborts ==
    /\ call.op = "FindNode"
    /\ ValidPath(call.fullXPath)
    /\ doc[1].FirstChild # 0
    /\ ScansErrorNode(doc, Tail(SegmentsOf(call.fullXPath)),
                      doc[doc[1].FirstChild].NextSibling)
    => call.err # nil /\ call.node = 0

\* C8: FindNode, GetValue, NextAfter and GetChildes complete with a result or
\* an error, never with a nil dereference, and FindNode never returns a nil
\* node together with a nil error.
C8_NoPanicNoNilNil ==
    call.op \in {"FindNode", "GetValue", "NextAfter", "GetChildes"}
    => /\ ~call.panic
       /\ (call.op = "FindNode" => ~(call.node = 0 /\ call.err = nil))

AfterSet(d, start) ==
    IF start = 0 THEN {}
    ELSE LET tops == {j \in 1..Len(d) : j >= start /\ d[j].Parent = d[start].Parent}
         IN  {n \in 1..Len(d) : AncOrSelf(ParentOf(d), n) \cap tops # {}}

\* the proper descendants of node
Descendants(d, node) ==
    {n \in 1..Len(d) : n # node /\ node \in AncOrSelf(ParentOf(d), n)}

\* nodes holds exactly the members of S, each once, in document order
PreorderOf(nodes, S) ==
    /\ Len(nodes) = Cardinality(S)
    /\ {nodes[i] : i \in 1..Len(nodes)} = S
    /\ \A i, j \in 1..Len(nodes) : i < j => nodes[i] < nodes[j]

\* C9: collectAfter(start) returns start, its following siblings and all
\* their descendants, each once, in preorder, and nothing when start is
\* absent; NextAfter collects from the resolved node and GetChildes from its
\* first child.
C9_CollectAfterPreorder ==
    /\ call.op = "collectAfter" => PreorderOf(call.nodes, AfterSet(doc, call.node))
    /\ call.op \in {"NextAfter", "GetChildes"} =>
          LET r == FindNode(doc, call.fullXPath) IN
          (~r.panic /\ r.err = nil /\ r.node # 0) =>
              /\ call.err = nil
              /\ ~call.panic
              /\ call.op = "NextAfter" => PreorderOf(call.nodes, AfterSet(doc, r.node))
              /\ call.op = "GetChildes" => PreorderOf(call.nodes, Descendants(doc, r.node))

\* collectAfter ran from a node that has a child and a following sibling
C9_Witness ==
    /\ call.op = "collectAfter"
    /\ call.node # 0
    /\ doc[call.node].FirstChild # 0
    /\ doc[call.node].NextSibling # 0
    /\ Len(call.nodes) >= 3

\* ----------------------------------------------------- the retrying client
RECURSIVE FailSleep(_)
\* k failed attempts, each followed by a wait
FailSleep(k) == IF k = 0 THEN <<>> ELSE <<"fail", "sleep">> \o FailSleep(k - 1)

\* C10: Get with retries = N returns the response of the first successful
\* attempt at once; if every attempt fails it makes exactly N+1 attempts,
\* waits after each but the last, and returns nil with an error wrapping the
\* last attempt's error.
C10_RetrySequence ==
    (h.pc = "returned" /\ h.url # nil /\ h.retryTimeout >= 0) =>
        \/ /\ \E k \in 0..h.retries : h.log = FailSleep(k) \o <<"ok">>
           /\ h.resp = [of |-> Len(h.log)]
           /\ h.err = nil
        \/ /\ h.log = FailSleep(h.retries) \o <<"fail">>
           /\ h.resp = nil
           /\ h.err = [msg |-> "execution request timeout", wraps |-> [of |-> Len(h.log)]]

====
